---------------------------- MODULE Spec2Model ----------------------------
(***************************************************************************)
(* Model of the medical phase simulator backend: the /process handler of   *)
(* backend/app.py and the image pipeline of backend/processing.py          *)
(* (load_image, simulate_arterial, simulate_venous, to_png_bytes).         *)
(*                                                                         *)
(* The pipeline is a thin layer over Pillow.  Each Pillow call is modelled *)
(* by the integer arithmetic Pillow performs for a mode "L" image          *)
(* (ImageOps.equalize, BoxBlur.c, UnsharpMask.c, Blend.c, ImageStat,       *)
(* ZipEncode.c / the PNG filters), at the line of the call.  Two layers of *)
(* the PNG container are transparent to every property stated here and are *)
(* left out: the chunk framing (length, type, CRC) and the zlib stream.    *)
(***************************************************************************)
EXTENDS Integers, Sequences, FiniteSets, TLC

(***************************************************************************)
(* Bounds of the model.                                                    *)
(***************************************************************************)
\* concurrent /process requests in flight
NumRequests == 2
\* small test images are all images with at most this many pixels
MaxPixels == 4
\* side of the large square test images (>= 16, so that they hold the
\* 255 pixels below the top bin that make equalization remap)
BigSide == 16

\* intensities the enumerated test images draw from
Levels == {0, 100, 106, 255}

(***************************************************************************)
(* Images: mode "L", row-major, one byte per pixel.                        *)
(***************************************************************************)
NoImage == [w |-> 0, h |-> 0, px |-> <<>>]

Clamp(i, lo, hi) == IF i < lo THEN lo ELSE IF i > hi THEN hi ELSE i

\* CLIP8 of Pillow's ImagingUtils.h
clip8(v) == Clamp(v, 0, 255)

\* C integer division, which truncates toward zero (b > 0)
TruncDiv(a, b) == IF a >= 0 THEN a \div b ELSE -((-a) \div b)

Abs(i) == IF i < 0 THEN -i ELSE i

\* F applied to the value of e, with e evaluated once
Strict(F(_), e) == CHOOSE y \in {F(x) : x \in {e}} : TRUE

RECURSIVE SumRange(_, _, _)
\* f[lo] + ... + f[hi], summed by halves
SumRange(f, lo, hi) ==
  IF lo > hi THEN 0
  ELSE IF lo = hi THEN f[lo]
  ELSE SumRange(f, lo, (lo + hi) \div 2) + SumRange(f, (lo + hi) \div 2 + 1, hi)

\* image.histogram(): the number of pixels in each of the 256 bins
histogram(img) ==
  [v \in 0..255 |-> Cardinality({i \in 1..Len(img.px) : img.px[i] = v})]

(***************************************************************************)
(* ImageOps.equalize(img): h is the histogram, histo its nonzero entries.  *)
(*   if len(histo) <= 1: lut = identity                                    *)
(*   else: step = (sum(histo) - histo[-1]) // 255                          *)
(*         if not step: lut = identity                                     *)
(*         else: n = step // 2; for i: lut[i] = n // step; n += h[i]       *)
(* and image.point(lut), which stores each lut entry with CLIP8.           *)
(* The division by step is only evaluated behind the two guards.           *)
(***************************************************************************)
\* h[0] + ... + h[i - 1]
SumBelow(h, i) == SumRange(h, 0, i - 1)

\* the bins that hold a pixel
Present(h) == {v \in 0..255 : h[v] > 0}

\* histo[-1]: the count of the highest bin that holds a pixel
LastCount(h) == h[CHOOSE v \in Present(h) : \A u \in Present(h) : u <= v]

\* the count of the lowest bin that holds a pixel
FirstCount(h) == h[CHOOSE v \in Present(h) : \A u \in Present(h) : v <= u]

IdentityLut == [i \in 0..255 |-> i]

\* n = step // 2; for i in range(256): lut.append(n // step); n = n + h[i]
SteppedLut(h, step) == [i \in 0..255 |-> clip8((step \div 2 + SumBelow(h, i)) \div step)]

\* if not step: identity, else the stepped table
EqualizeLutOfStep(h, step) ==
  Strict(LAMBDA s : IF s = 0 THEN IdentityLut ELSE SteppedLut(h, s), step)

\* (cdf(v) - cdf_min) * 255 / (total - cdf_min), the denominator kept positive
CdfLut(h, cdf_min, denom) ==
  [i \in 0..255 |-> clip8(((SumBelow(h, i) + h[i] - cdf_min) * 255) \div denom)]

CdfLutFrom(h, total, cdf_min) ==
  Strict(LAMBDA d : CdfLut(h, cdf_min, d), IF total - cdf_min < 1 THEN 1 ELSE total - cdf_min)

EqualizeZeroForUniform(h, total) ==
  Strict(LAMBDA m : CdfLutFrom(h, total, m), FirstCount(h))

\* the lookup table of ImageOps.equalize for the histogram h of total pixels
EqualizeLut(h, total) ==
  IF Cardinality(Present(h)) <= 1 THEN IdentityLut
  ELSE EqualizeLutOfStep(h, (total - LastCount(h)) \div 255)

\* image.point(lut)
point(img, lut) == [img EXCEPT !.px = [i \in 1..Len(img.px) |-> lut[img.px[i]]]]

EqualizeWithHistogram(img, h) ==
  Strict(LAMBDA lut : point(img, lut), EqualizeLut(h, Len(img.px)))

EqualizeOf(img) == Strict(LAMBDA h : EqualizeWithHistogram(img, h), histogram(img))

equalize(img) == Strict(EqualizeOf, img)

(***************************************************************************)
(* ImageFilter.GaussianBlur(radius=2) and the blur inside UnsharpMask:     *)
(* ImagingGaussianBlur(radius, passes = 3) = ImagingBoxBlur with the box   *)
(* radius _gaussian_blur_radius(2, 3) = 1.375: three horizontal box passes,*)
(* a transpose, three more passes, a transpose back.  One pass computes,   *)
(* in 24-bit fixed point with ww = 2^24 / 3.75 = 4473924 and               *)
(* fw = (2^24 - 3 * ww) / 2 = 1677722,                                     *)
(*   out[x] = (ww * (in[x-1] + in[x] + in[x+1])                            *)
(*             + fw * (in[x-2] + in[x+2]) + 2^23) >> 24                    *)
(* with indexes outside the line replaced by the nearest edge pixel.       *)
(* ww and fw are even: the sum is halved here, exactly, to stay below 2^31.*)
(***************************************************************************)
\* integer part of the box radius 1.375
BoxRadius == 1
\* ww / 2
BoxWW == 2236962
\* fw / 2
BoxFW == 838861
\* 2^23 / 2, the rounding term, and 2^24 / 2, the divisor
BoxHalf == 4194304
BoxOne == 8388608

\* the pixel of line y at x, x clamped to the line
PixelAt(img, x, y) == img.px[y * img.w + Clamp(x, 0, img.w - 1) + 1]

\* one output pixel of ImagingLineBoxBlur8
BoxBlurPixel(img, x, y) ==
  ((PixelAt(img, x - BoxRadius, y) + PixelAt(img, x, y) + PixelAt(img, x + BoxRadius, y)) * BoxWW
   + (PixelAt(img, x - BoxRadius - 1, y) + PixelAt(img, x + BoxRadius + 1, y)) * BoxFW
   + BoxHalf) \div BoxOne

BoxBlurLines(img) ==
  [img EXCEPT !.px = [i \in 1..Len(img.px) |->
                        BoxBlurPixel(img, (i - 1) % img.w, (i - 1) \div img.w)]]

\* ImagingHorizontalBoxBlur: one pass over every line
HorizontalBoxBlur(img) == Strict(BoxBlurLines, img)

TransposeOf(img) ==
  [w |-> img.h, h |-> img.w,
   px |-> [i \in 1..Len(img.px) |-> img.px[((i - 1) % img.h) * img.w + (i - 1) \div img.h + 1]]]

\* ImagingTranspose
Transpose(img) == Strict(TransposeOf, img)

BoxPasses(img) == HorizontalBoxBlur(HorizontalBoxBlur(HorizontalBoxBlur(img)))

GaussianBlurNoTransposeBack(img) == BoxPasses(Transpose(BoxPasses(img)))

GaussianBlur(img) == Transpose(BoxPasses(Transpose(BoxPasses(img))))

(***************************************************************************)
(* ImageFilter.UnsharpMask(radius=2, percent=125, threshold=3), as         *)
(* ImagingUnsharpMask computes it: blur, then per pixel                    *)
(*   diff = in - blurred                                                   *)
(*   out  = abs(diff) > threshold ? clip8(in + diff * percent / 100) : in  *)
(* in C int arithmetic.                                                    *)
(***************************************************************************)
UnsharpPercent == 125
UnsharpThreshold == 3

SharpenAtInclusive(diff) == Abs(diff) >= UnsharpThreshold

\* abs(diff) > threshold
SharpenAt(diff) == Abs(diff) > UnsharpThreshold

\* one pixel of the unsharp mask, from the pixel and the difference to its blur
SharpenPixel(v, diff) ==
  IF SharpenAt(diff) THEN clip8(v + TruncDiv(diff * UnsharpPercent, 100)) ELSE v

Sharpen(img, blurred) ==
  [img EXCEPT !.px = [i \in 1..Len(img.px) |->
                        SharpenPixel(img.px[i], img.px[i] - blurred.px[i])]]

UnsharpMaskOf(img) == Strict(LAMBDA blurred : Sharpen(img, blurred), GaussianBlur(img))

UnsharpMask(img) == Strict(UnsharpMaskOf, img)

(***************************************************************************)
(* ImageEnhance.Brightness(img).enhance(1.05) = Image.blend(black, img,    *)
(* 1.05).  ImagingBlend takes alpha as a C float and, for alpha outside    *)
(* [0, 1], computes per pixel                                              *)
(*   temp = (float)(in1 + alpha * (in2 - in1))                             *)
(*   out  = temp <= 0 ? 0 : temp >= 255 ? 255 : (UINT8)temp                *)
(* With in1 = 0 this is the float32 product v * 1.05f, truncated.          *)
(* 1.05f = 4404019 / 2^22; the product is rounded to a 24-bit mantissa,    *)
(* ties to even.                                                           *)
(***************************************************************************)
\* 1.05f * 2^22
BrightnessAlphaQ22 == 4404019
Q22 == 4194304
\* 2^24: nonnegative integers below it are float32 values
F32Mantissa == 16777216

RECURSIVE F32Ulp(_)
\* the spacing of float32 values around p (p a nonnegative integer count of units)
F32Ulp(p) == IF p < F32Mantissa THEN 1 ELSE 2 * F32Ulp(p \div 2)

\* p rounded to the nearest float32 value, ties to even
F32RoundTo(p, u) ==
  IF 2 * (p % u) > u \/ (2 * (p % u) = u /\ (p \div u) % 2 = 1)
  THEN (p \div u + 1) * u
  ELSE (p \div u) * u

F32Round(p) == Strict(LAMBDA u : F32RoundTo(p, u), F32Ulp(p))

\* temp <= 0 ? 0 : temp >= 255 ? 255 : (UINT8)temp, temp in units of 2^-22
ClipQ22(temp) == IF temp <= 0 THEN 0 ELSE IF temp >= 255 * Q22 THEN 255 ELSE temp \div Q22

BrightnessPixel(v) == Strict(ClipQ22, F32Round(v * BrightnessAlphaQ22))

BrightnessOf(img) ==
  [img EXCEPT !.px = [i \in 1..Len(img.px) |-> BrightnessPixel(img.px[i])]]

Brightness(img) == Strict(BrightnessOf, img)

(***************************************************************************)
(* ImageEnhance.Contrast(img).enhance(1.35):                               *)
(*   mean = int(ImageStat.Stat(img).mean[0] + 0.5)                         *)
(*   Image.blend(Image.new("L", size, mean), img, 1.35)                    *)
(* so temp = mean + 1.35f * (v - mean), clipped and truncated as above.    *)
(* 1.35 * d has a fraction that is a multiple of 1/20, and where it is an  *)
(* integer the float32 product is that integer, so the truncation of the   *)
(* float32 value is the truncation of the exact (20 mean + 27 d) / 20.     *)
(***************************************************************************)
\* int(sum / n + 0.5)
RoundedMean(sum, n) == IF n = 0 THEN 0 ELSE (2 * sum + n) \div (2 * n)

Mean(img) ==
  Strict(LAMBDA sum : RoundedMean(sum, Len(img.px)), SumRange(img.px, 1, Len(img.px)))

\* temp <= 0 ? 0 : temp >= 255 ? 255 : (UINT8)temp, temp in twentieths
Clip20(t20) == IF t20 <= 0 THEN 0 ELSE IF t20 >= 20 * 255 THEN 255 ELSE t20 \div 20

ContrastPixel(v, mean) == Clip20(20 * mean + 27 * (v - mean))

ContrastAround(img, mean) ==
  [img EXCEPT !.px = [i \in 1..Len(img.px) |-> ContrastPixel(img.px[i], mean)]]

ContrastOf(img) == Strict(LAMBDA mean : ContrastAround(img, mean), Mean(img))

Contrast(img) == Strict(ContrastOf, img)

(***************************************************************************)
(* simulate_arterial and simulate_venous as functions of their argument.   *)
(***************************************************************************)
simulate_arterial(img) == Contrast(Brightness(UnsharpMask(equalize(img))))

simulate_venous(img) == GaussianBlur(img)

(***************************************************************************)
(* The PNG container, as far as the pipeline depends on it: the signature, *)
(* the IHDR fields and the filtered scanlines (a filter-type byte, then    *)
(* the filtered bytes of the line).                                        *)
(***************************************************************************)
PngSignature == <<137, 80, 78, 71, 13, 10, 26, 10>>

U32BE(n) == <<n \div 16777216, (n \div 65536) % 256, (n \div 256) % 256, n % 256>>

\* s a sequence of four bytes; a value of 2^31 or more does not fit an image size
FromU32BE(s) ==
  IF s[1] >= 128 THEN 2147483647
  ELSE s[1] * 16777216 + s[2] * 65536 + s[3] * 256 + s[4]

\* bit depth 8, the colour type, compression 0, filter method 0, no interlace
IHDR(w, h, ctype) == U32BE(w) \o U32BE(h) \o <<8, ctype, 0, 0, 0>>

PaethPredictor(a, b, c) ==
  LET p == a + b - c
      pa == Abs(p - a)
      pb == Abs(p - b)
      pcc == Abs(p - c)
  IN  IF pa <= pb /\ pa <= pcc THEN a ELSE IF pb <= pcc THEN b ELSE c

\* the predictor of filter type ft from the left (a), upper (b) and upper-left (c) bytes
Predict(ft, a, b, c) ==
  CASE ft = 0 -> 0
    [] ft = 1 -> a
    [] ft = 2 -> b
    [] ft = 3 -> (a + b) \div 2
    [] ft = 4 -> PaethPredictor(a, b, c)

Zeros(n) == [k \in 1..n |-> 0]

FilterRowNoWrap(ft, raw, prior, bpp) ==
  [k \in 1..Len(raw) |->
     Abs(raw[k] - Predict(ft, IF k > bpp THEN raw[k - bpp] ELSE 0, prior[k],
                          IF k > bpp THEN prior[k - bpp] ELSE 0))]

\* a scanline filtered with type ft: each byte minus its predictor, modulo 256
FilterRow(ft, raw, prior, bpp) ==
  [k \in 1..Len(raw) |->
     (raw[k] - Predict(ft, IF k > bpp THEN raw[k - bpp] ELSE 0, prior[k],
                       IF k > bpp THEN prior[k - bpp] ELSE 0)) % 256]

\* ZipEncode.c's measure of a filtered line: the sum of its bytes taken as signed
SignedCost(row) ==
  SumRange([k \in 1..Len(row) |-> IF row[k] < 128 THEN row[k] ELSE 256 - row[k]], 1, Len(row))

FilterCost(row) == Strict(SignedCost, row)

(***************************************************************************)
(* ZipEncode.c, mode ZIP_PNG without optimize: filter 0 (none), then 2     *)
(* (up), 1 (prior) and 4 (paeth), each tried only while the best sum is    *)
(* positive and taken only when its sum is strictly smaller.               *)
(***************************************************************************)
\* the filter tried next, taken when the best sum is positive and its own is smaller
Better(best, sum, ft, s) == IF sum > 0 /\ s < sum THEN <<ft, s>> ELSE <<best, sum>>

\* the best so far, a pair of filter type and sum, after trying ft with sum s
Try(b, ft, s) == Better(b[1], b[2], ft, s)

ChooseAmong(costs) ==
  Try(Try(Try(<<0, costs[1]>>, 2, costs[2]), 1, costs[3]), 4, costs[4])[1]

ChooseFilter(raw, prior, bpp) ==
  Strict(ChooseAmong,
         <<FilterCost(FilterRow(0, raw, prior, bpp)), FilterCost(FilterRow(2, raw, prior, bpp)),
           FilterCost(FilterRow(1, raw, prior, bpp)), FilterCost(FilterRow(4, raw, prior, bpp))>>)

RawRow(img, y) == SubSeq(img.px, y * img.w + 1, (y + 1) * img.w)

\* a line as ZipEncode.c emits it: the filter type, then the filtered bytes
ScanLineWith(ft, raw, prior, bpp) == <<ft>> \o FilterRow(ft, raw, prior, bpp)

ScanLineOf(rows, bpp) ==
  Strict(LAMBDA ft : ScanLineWith(ft, rows[1], rows[2], bpp), ChooseFilter(rows[1], rows[2], bpp))

ScanLine(raw, prior, bpp) == Strict(LAMBDA rows : ScanLineOf(rows, bpp), <<raw, prior>>)

RECURSIVE ScanLines(_, _)
\* the filtered lines y .. h-1 of a mode "L" image
ScanLines(img, y) ==
  IF y >= img.h THEN <<>>
  ELSE ScanLine(RawRow(img, y), IF y = 0 THEN Zeros(img.w) ELSE RawRow(img, y - 1), 1)
       \o ScanLines(img, y + 1)

\* img.save(buf, format="PNG") of a mode "L" image: greyscale (colour type 0), 8 bit
SavePng(img) == PngSignature \o IHDR(img.w, img.h, 0) \o ScanLines(img, 0)

to_png_bytes(img) == Strict(SavePng, img)

RECURSIVE UnfilterRow(_, _, _, _, _)
\* a line reconstructed byte by byte: line holds a filter type and the filtered
\* bytes, recon the bytes reconstructed so far, prior the line above
UnfilterRow(line, bpp, prior, recon, stride) ==
  IF Len(recon) = stride THEN recon
  ELSE Strict(LAMBDA next : UnfilterRow(line, bpp, prior, next, stride),
         Append(recon,
           (line[Len(recon) + 2]
            + Predict(line[1],
                      IF Len(recon) >= bpp THEN recon[Len(recon) + 1 - bpp] ELSE 0,
                      prior[Len(recon) + 1],
                      IF Len(recon) >= bpp THEN prior[Len(recon) + 1 - bpp] ELSE 0)) % 256))

\* the first line of data, reconstructed
UnfilterFirst(data, stride, bpp, prior) ==
  Strict(LAMBDA line : UnfilterRow(line, bpp, prior, <<>>, stride), SubSeq(data, 1, stride + 1))

RECURSIVE UnfilterRows(_, _, _, _, _)

\* a reconstructed line, followed by the lines below it
UnfilterTail(data, stride, bpp, row, n) ==
  row \o Strict(LAMBDA rest : UnfilterRows(rest, stride, bpp, row, n - 1),
                SubSeq(data, stride + 2, Len(data)))

\* the reconstructed bytes of the next n lines of data, prior the line above
UnfilterRows(data, stride, bpp, prior, n) ==
  IF n = 0 THEN <<>>
  ELSE Strict(LAMBDA row : UnfilterTail(data, stride, bpp, row, n),
              UnfilterFirst(data, stride, bpp, prior))

\* convert("L") of an RGB pixel: ITU-R 601-2 luma, L24(rgb) >> 16
Luma(r, g, b) == (r * 19595 + g * 38470 + b * 7471 + 32768) \div 65536

DecodeError(name) == [ok |-> FALSE, error |-> name, img |-> NoImage]

\* the mode "L" image of the reconstructed bytes raw: convert("L")
Converted(w, h, ctype, raw) ==
  [ok |-> TRUE, error |-> "none",
   img |-> [w |-> w, h |-> h,
            px |-> [i \in 1..(w * h) |->
                      IF ctype = 0 THEN raw[i]
                      ELSE Luma(raw[3 * i - 2], raw[3 * i - 1], raw[3 * i])]]]

Decoded(w, h, ctype, raw) == Strict(LAMBDA bytes : Converted(w, h, ctype, bytes), raw)

(***************************************************************************)
(* load_image: Image.open(BytesIO(file_bytes)).convert("L").  Image.open   *)
(* raises UnidentifiedImageError when no decoder accepts the bytes;        *)
(* convert loads the pixel data and raises OSError when the data is        *)
(* truncated or broken.  Greyscale and RGB 8-bit PNG are decoded here.     *)
(***************************************************************************)
\* the image data after the header: w, h, colour type ctype, bpp bytes per pixel
LoadData(w, h, ctype, bpp, data) ==
  IF w > Len(data) \/ h > Len(data) \/ Len(data) < h * (w * bpp + 1)
  THEN DecodeError("OSError")
  ELSE IF \E y \in 0..(h - 1) : data[y * (w * bpp + 1) + 1] \notin 0..4
  THEN DecodeError("OSError")
  ELSE Decoded(w, h, ctype, UnfilterRows(data, w * bpp, bpp, Zeros(w * bpp), h))

\* the file after the signature: the header fields, then the data
LoadPng(file_bytes, w, h, ctype) ==
  IF \/ file_bytes[17] # 8 \/ ctype \notin {0, 2} \/ w = 0 \/ h = 0
     \/ SubSeq(file_bytes, 19, 21) # <<0, 0, 0>>
  THEN DecodeError("UnidentifiedImageError")
  ELSE Strict(LAMBDA data : LoadData(w, h, ctype, IF ctype = 0 THEN 1 ELSE 3, data),
              SubSeq(file_bytes, 22, Len(file_bytes)))

OpenAndConvert(file_bytes) ==
  IF Len(file_bytes) < 21 THEN DecodeError("UnidentifiedImageError")
  ELSE IF SubSeq(file_bytes, 1, 8) # PngSignature THEN DecodeError("UnidentifiedImageError")
  ELSE LoadPng(file_bytes, FromU32BE(SubSeq(file_bytes, 9, 12)),
               FromU32BE(SubSeq(file_bytes, 13, 16)), file_bytes[18])

load_image(file_bytes) == Strict(OpenAndConvert, file_bytes)

(***************************************************************************)
(* base64.b64encode(png).decode(): each group of three bytes becomes four  *)
(* characters, here their indexes 0..63 in the alphabet, 64 for "=".       *)
(***************************************************************************)
B64Pad == 64

\* byte i of bytes, 0 past the end
ByteAt(bytes, i) == IF i <= Len(bytes) THEN bytes[i] ELSE 0

\* the 24 bits of group g
Group(bytes, g) ==
  ByteAt(bytes, 3 * g + 1) * 65536 + ByteAt(bytes, 3 * g + 2) * 256 + ByteAt(bytes, 3 * g + 3)

\* character j of a group of 24 bits v
Sextet(v, j) ==
  CASE j = 0 -> v \div 262144
    [] j = 1 -> (v \div 4096) % 64
    [] j = 2 -> (v \div 64) % 64
    [] j = 3 -> v % 64

Base64Of(bytes) ==
  [k \in 1..(4 * ((Len(bytes) + 2) \div 3)) |->
     IF (k - 1) % 4 >= 1 /\ 3 * ((k - 1) \div 4) + ((k - 1) % 4) > Len(bytes) THEN B64Pad
     ELSE Sextet(Group(bytes, (k - 1) \div 4), (k - 1) % 4)]

b64encode(bytes) == Strict(Base64Of, bytes)

(***************************************************************************)
(* The /process handler.  Every request r has its own inputs (the upload's *)
(* content type and bytes, the phase form field), its own position pc[r]   *)
(* and its own locals, named as in process_image and simulate_arterial.    *)
(* calls[r] lists, in order, the pipeline stages the request has entered.  *)
(* fault[r] is the stage, if any, at which the environment makes a call    *)
(* raise for this request (MemoryError, a failed read of the upload).      *)
(***************************************************************************)
VARIABLES content_type, phase, file, fault,
          pc, img_bytes, pil, eq, sharp, bright, out, png, status, body, calls,
          rt

inputs == <<content_type, phase, file, fault>>
locals == <<img_bytes, pil, eq, sharp, bright, out, png>>
vars == <<content_type, phase, file, fault,
          pc, img_bytes, pil, eq, sharp, bright, out, png, status, body, calls, rt>>

Requests == 1..NumRequests

ContentTypes == {"image/jpeg", "image/png", "image/jpg", "text/plain"}

\* phase: Literal["arterial", "venous"]; FastAPI answers any other value itself
Phases == {"arterial", "venous"}

ArterialStages == <<"equalize", "unsharp", "brightness", "contrast">>

Stages == {"read", "load_image", "equalize", "unsharp", "brightness", "contrast",
           "gaussian_blur", "to_png_bytes", "b64encode"}

\* the stages of a request of phase ph, in the order process_image enters them
StageOrder(ph) ==
  <<"read", "load_image">>
  \o (IF ph = "arterial" THEN ArterialStages ELSE <<"gaussian_blur">>)
  \o <<"to_png_bytes", "b64encode">>

NoBody == [pending |-> TRUE]
Rejected == [detail |-> "Only JPG/PNG images are supported."]
InternalError == [detail |-> "Internal server error during image processing."]

AcceptsEverything(ct) == TRUE

\* file.content_type in {"image/jpeg", "image/png", "image/jpg"}
Accepted(ct) == ct \in {"image/jpeg", "image/png", "image/jpg"}

PhaseSwapped(r) == phase[r] # "arterial"

\* phase == "arterial"
IsArterial(r) == phase[r] = "arterial"

RetryAfterFailure(r) == "read"

\* where a request is once the except clause has raised its HTTPException
AfterFailure(r) == "done"

SomeLoadedImage(r) ==
  LET loaded == {q \in Requests : pil[q] # NoImage}
  IN  IF loaded = {} THEN pil[r]
      ELSE pil[CHOOSE q \in loaded : \A p \in loaded : q <= p]

\* the argument of simulate_arterial(pil) and simulate_venous(pil)
TransformInput(r) == pil[r]

UnsharpOfOriginal(r) == pil[r]

\* the image that eq.filter(UnsharpMask(...)) is called on
UnsharpInput(r) == eq[r]

\* the call at this stage raises
Raises(r, stage) == fault[r] = stage

Enter(r, stage) == calls' = [calls EXCEPT ![r] = Append(@, stage)]

Goto(r, where) == pc' = [pc EXCEPT ![r] = where]

\* except Exception: raise HTTPException(status_code=500, ...)
Raise500(r) ==
  /\ status' = [status EXCEPT ![r] = 500]
  /\ body' = [body EXCEPT ![r] = InternalError]
  /\ Goto(r, AfterFailure(r))

\* the content type check, before the try block
Validate(r) ==
  /\ pc[r] = "validate"
  /\ IF Accepted(content_type[r])
     THEN Goto(r, "read") /\ UNCHANGED <<status, body>>
     ELSE /\ status' = [status EXCEPT ![r] = 400]
          /\ body' = [body EXCEPT ![r] = Rejected]
          /\ Goto(r, "done")
  /\ UNCHANGED <<inputs, locals, calls, rt>>

\* img_bytes = await file.read()
Read(r) ==
  /\ pc[r] = "read"
  /\ Enter(r, "read")
  /\ IF Raises(r, "read")
     THEN Raise500(r) /\ UNCHANGED img_bytes
     ELSE /\ img_bytes' = [img_bytes EXCEPT ![r] = file[r]]
          /\ Goto(r, "load")
          /\ UNCHANGED <<status, body>>
  /\ UNCHANGED <<inputs, pil, eq, sharp, bright, out, png, rt>>

\* pil = load_image(img_bytes), and the branch on phase
Load(r) ==
  /\ pc[r] = "load"
  /\ Enter(r, "load_image")
  /\ LET d == load_image(img_bytes[r])
     IN  IF Raises(r, "load_image") \/ ~d.ok
         THEN Raise500(r) /\ UNCHANGED pil
         ELSE /\ pil' = [pil EXCEPT ![r] = d.img]
              /\ Goto(r, IF IsArterial(r) THEN "equalize" ELSE "venous")
              /\ UNCHANGED <<status, body>>
  /\ UNCHANGED <<inputs, img_bytes, eq, sharp, bright, out, png, rt>>

\* eq = ImageOps.equalize(img)
EqualizeStep(r) ==
  /\ pc[r] = "equalize"
  /\ Enter(r, "equalize")
  /\ IF Raises(r, "equalize")
     THEN Raise500(r) /\ UNCHANGED eq
     ELSE /\ eq' = [eq EXCEPT ![r] = equalize(TransformInput(r))]
          /\ Goto(r, "unsharp")
          /\ UNCHANGED <<status, body>>
  /\ UNCHANGED <<inputs, img_bytes, pil, sharp, bright, out, png, rt>>

\* sharp = eq.filter(ImageFilter.UnsharpMask(radius=2, percent=125, threshold=3))
UnsharpStep(r) ==
  /\ pc[r] = "unsharp"
  /\ Enter(r, "unsharp")
  /\ IF Raises(r, "unsharp")
     THEN Raise500(r) /\ UNCHANGED sharp
     ELSE /\ sharp' = [sharp EXCEPT ![r] = UnsharpMask(UnsharpInput(r))]
          /\ Goto(r, "brightness")
          /\ UNCHANGED <<status, body>>
  /\ UNCHANGED <<inputs, img_bytes, pil, eq, bright, out, png, rt>>

\* bright = ImageEnhance.Brightness(sharp).enhance(1.05)
BrightnessStep(r) ==
  /\ pc[r] = "brightness"
  /\ Enter(r, "brightness")
  /\ IF Raises(r, "brightness")
     THEN Raise500(r) /\ UNCHANGED bright
     ELSE /\ bright' = [bright EXCEPT ![r] = Brightness(sharp[r])]
          /\ Goto(r, "contrast")
          /\ UNCHANGED <<status, body>>
  /\ UNCHANGED <<inputs, img_bytes, pil, eq, sharp, out, png, rt>>

\* contrast = ImageEnhance.Contrast(bright).enhance(1.35); return contrast
ContrastStep(r) ==
  /\ pc[r] = "contrast"
  /\ Enter(r, "contrast")
  /\ IF Raises(r, "contrast")
     THEN Raise500(r) /\ UNCHANGED out
     ELSE /\ out' = [out EXCEPT ![r] = Contrast(bright[r])]
          /\ Goto(r, "encode")
          /\ UNCHANGED <<status, body>>
  /\ UNCHANGED <<inputs, img_bytes, pil, eq, sharp, bright, png, rt>>

\* blur = img.filter(ImageFilter.GaussianBlur(radius=2.0)); return blur
VenousStep(r) ==
  /\ pc[r] = "venous"
  /\ Enter(r, "gaussian_blur")
  /\ IF Raises(r, "gaussian_blur")
     THEN Raise500(r) /\ UNCHANGED out
     ELSE /\ out' = [out EXCEPT ![r] = GaussianBlur(TransformInput(r))]
          /\ Goto(r, "encode")
          /\ UNCHANGED <<status, body>>
  /\ UNCHANGED <<inputs, img_bytes, pil, eq, sharp, bright, png, rt>>

\* png = to_png_bytes(out)
Encode(r) ==
  /\ pc[r] = "encode"
  /\ Enter(r, "to_png_bytes")
  /\ IF Raises(r, "to_png_bytes")
     THEN Raise500(r) /\ UNCHANGED png
     ELSE /\ png' = [png EXCEPT ![r] = to_png_bytes(out[r])]
          /\ Goto(r, "respond")
          /\ UNCHANGED <<status, body>>
  /\ UNCHANGED <<inputs, img_bytes, pil, eq, sharp, bright, out, rt>>

\* b64_data = base64.b64encode(png).decode(); return {...}
Respond(r) ==
  /\ pc[r] = "respond"
  /\ Enter(r, "b64encode")
  /\ IF Raises(r, "b64encode")
     THEN Raise500(r)
     ELSE /\ status' = [status EXCEPT ![r] = 200]
          /\ body' = [body EXCEPT ![r] =
                        [phase |-> phase[r], format |-> "png",
                         processed_image_base64 |-> b64encode(png[r])]]
          /\ Goto(r, "done")
  /\ UNCHANGED <<inputs, locals, rt>>

(***************************************************************************)
(* The round trip of the codec: an image is encoded by to_png_bytes, the   *)
(* bytes are decoded by load_image, and the decoded image is encoded again.*)
(***************************************************************************)
RtIdle == [pc |-> "idle", img |-> NoImage, png |-> <<>>,
           back |-> DecodeError("none"), png2 |-> <<>>]

RtEncode ==
  /\ rt.pc = "encode"
  /\ rt' = [rt EXCEPT !.png = to_png_bytes(rt.img), !.pc = "decode"]
  /\ UNCHANGED <<inputs, locals, pc, status, body, calls>>

RtDecode ==
  /\ rt.pc = "decode"
  /\ rt' = [rt EXCEPT !.back = load_image(rt.png), !.pc = "reencode"]
  /\ UNCHANGED <<inputs, locals, pc, status, body, calls>>

RtReencode ==
  /\ rt.pc = "reencode"
  /\ rt.back.ok
  /\ rt' = [rt EXCEPT !.png2 = to_png_bytes(rt.back.img), !.pc = "done"]
  /\ UNCHANGED <<inputs, locals, pc, status, body, calls>>

(***************************************************************************)
(* Inputs.                                                                 *)
(***************************************************************************)
\* every image of at most MaxPixels pixels over Levels
SmallImages ==
  UNION {{[w |-> d[1], h |-> d[2], px |-> p] : p \in [1..(d[1] * d[2]) -> Levels]} :
           d \in {e \in (1..MaxPixels) \X (1..MaxPixels) : e[1] * e[2] <= MaxPixels}}

BigPixels == BigSide * BigSide

BigImage(px) == [w |-> BigSide, h |-> BigSide, px |-> px]

\* large images: uniform ones, one bright pixel on a flat ground, two halves,
\* a ramp over all intensities, three levels
BigImages ==
  {BigImage([i \in 1..BigPixels |-> c]) : c \in Levels}
  \cup {BigImage([i \in 1..BigPixels |-> IF i = 1 THEN 106 ELSE 100]),
        BigImage([i \in 1..BigPixels |-> IF 2 * ((i - 1) % BigSide) < BigSide THEN 0 ELSE 255]),
        BigImage([i \in 1..BigPixels |-> (i - 1) % 256]),
        BigImage([i \in 1..BigPixels |->
                    IF i = BigPixels THEN 255 ELSE IF i <= 2 * BigSide THEN 0 ELSE 100])}

TestImages == SmallImages \cup BigImages

\* uploads: no bytes, bytes of no image format, PNG files as a client has them
EmptyFile == <<>>
NotAnImage == <<71, 65, 82, 66, 65, 71, 69>>
GrayPng == to_png_bytes([w |-> 2, h |-> 2, px |-> <<0, 100, 106, 255>>])
TruncatedPng == SubSeq(GrayPng, 1, Len(GrayPng) - 1)
\* an RGB file, one line, filter 1: pure red, then pure green
RgbPng == PngSignature \o IHDR(2, 1, 2) \o <<1, 255, 0, 0, 1, 255, 0>>
\* a greyscale file whose lines use filters 4 and 3: pixels 10 30 / 10 25
AveragePng == PngSignature \o IHDR(2, 2, 0) \o <<4, 10, 20, 3, 5, 5>>

Files == {EmptyFile, NotAnImage, TruncatedPng, GrayPng, RgbPng, AveragePng}

Faults == Stages \cup {"none"}

\* the requests of the concurrent runs
ConcInputs ==
  {[content_type |-> "text/plain", phase |-> "arterial", file |-> GrayPng, fault |-> "none"],
   [content_type |-> "image/png", phase |-> "arterial", file |-> GrayPng, fault |-> "none"],
   [content_type |-> "image/jpeg", phase |-> "venous", file |-> AveragePng, fault |-> "none"],
   [content_type |-> "image/jpg", phase |-> "venous", file |-> EmptyFile, fault |-> "none"],
   [content_type |-> "image/png", phase |-> "arterial", file |-> RgbPng, fault |-> "to_png_bytes"]}

InitLocals ==
  /\ img_bytes = [r \in Requests |-> <<>>]
  /\ pil = [r \in Requests |-> NoImage]
  /\ eq = [r \in Requests |-> NoImage]
  /\ sharp = [r \in Requests |-> NoImage]
  /\ bright = [r \in Requests |-> NoImage]
  /\ out = [r \in Requests |-> NoImage]
  /\ png = [r \in Requests |-> <<>>]

InitResponses ==
  /\ status = [r \in Requests |-> 0]
  /\ body = [r \in Requests |-> NoBody]
  /\ calls = [r \in Requests |-> <<>>]

\* one request, with any content type, phase, upload and fault
Init ==
  /\ \E ct \in ContentTypes, ph \in Phases, f \in Files, fl \in Faults :
        /\ content_type = [r \in Requests |-> IF r = 1 THEN ct ELSE "text/plain"]
        /\ phase = [r \in Requests |-> IF r = 1 THEN ph ELSE "venous"]
        /\ file = [r \in Requests |-> IF r = 1 THEN f ELSE EmptyFile]
        /\ fault = [r \in Requests |-> IF r = 1 THEN fl ELSE "none"]
  /\ pc = [r \in Requests |-> IF r = 1 THEN "validate" ELSE "absent"]
  /\ InitLocals
  /\ InitResponses
  /\ rt = RtIdle

\* NumRequests requests in flight together
InitConc ==
  /\ \E in \in [Requests -> ConcInputs] :
        /\ content_type = [r \in Requests |-> in[r].content_type]
        /\ phase = [r \in Requests |-> in[r].phase]
        /\ file = [r \in Requests |-> in[r].file]
        /\ fault = [r \in Requests |-> in[r].fault]
  /\ pc = [r \in Requests |-> "validate"]
  /\ InitLocals
  /\ InitResponses
  /\ rt = RtIdle

\* a phase transform called on a test image
InitTransform ==
  /\ \E im \in TestImages, ph \in Phases :
        /\ phase = [r \in Requests |-> IF r = 1 THEN ph ELSE "venous"]
        /\ pil = [r \in Requests |-> IF r = 1 THEN im ELSE NoImage]
        /\ pc = [r \in Requests |->
                   IF r # 1 THEN "absent" ELSE IF ph = "arterial" THEN "equalize" ELSE "venous"]
  /\ content_type = [r \in Requests |-> "image/png"]
  /\ file = [r \in Requests |-> EmptyFile]
  /\ fault = [r \in Requests |-> "none"]
  /\ img_bytes = [r \in Requests |-> <<>>]
  /\ eq = [r \in Requests |-> NoImage]
  /\ sharp = [r \in Requests |-> NoImage]
  /\ bright = [r \in Requests |-> NoImage]
  /\ out = [r \in Requests |-> NoImage]
  /\ png = [r \in Requests |-> <<>>]
  /\ InitResponses
  /\ rt = RtIdle

\* the codec called on a test image
InitCodec ==
  /\ content_type = [r \in Requests |-> "text/plain"]
  /\ phase = [r \in Requests |-> "venous"]
  /\ file = [r \in Requests |-> EmptyFile]
  /\ fault = [r \in Requests |-> "none"]
  /\ pc = [r \in Requests |-> "absent"]
  /\ InitLocals
  /\ InitResponses
  /\ \E im \in TestImages : rt = [RtIdle EXCEPT !.pc = "encode", !.img = im]

Next ==
  \E r \in Requests :
    \/ Validate(r)
    \/ Read(r)
    \/ Load(r)
    \/ EqualizeStep(r)
    \/ UnsharpStep(r)
    \/ BrightnessStep(r)
    \/ ContrastStep(r)
    \/ VenousStep(r)
    \/ Encode(r)
    \/ Respond(r)

NextTransform ==
  \E r \in Requests :
    \/ EqualizeStep(r)
    \/ UnsharpStep(r)
    \/ BrightnessStep(r)
    \/ ContrastStep(r)
    \/ VenousStep(r)

NextCodec == RtEncode \/ RtDecode \/ RtReencode

Spec == Init /\ [][Next]_vars

SpecConc == InitConc /\ [][Next]_vars

SpecTransform == InitTransform /\ [][NextTransform]_vars

SpecCodec == InitCodec /\ [][NextCodec]_vars

(***************************************************************************)
(* Properties of the transforms and of the codec.                          *)
(***************************************************************************)
Uniform(img) == \A i \in 1..Len(img.px) : img.px[i] = img.px[1]

\* the stages of request r that belong to set, in the order they were entered
StagesIn(r, set) == SelectSeq(calls[r], LAMBDA s : s \in set)

IsPrefix(s, t) == Len(s) <= Len(t) /\ s = SubSeq(t, 1, Len(s))

TransformStages == {"equalize", "unsharp", "brightness", "contrast", "gaussian_blur"}

\* C8: on a uniform image (every pixel the same value c, any size, 1x1
\* included) the equalization step returns the image unchanged, every pixel
\* still c, and its evaluation divides by nothing that is zero.
C8_EqualizeUniformIdentity ==
  \A r \in Requests :
    (eq[r] # NoImage /\ Uniform(pil[r])) =>
      /\ eq[r] = pil[r]
      /\ \A i \in 1..Len(eq[r].px) : eq[r].px[i] = pil[r].px[1]

\* a large uniform image of intensity 100 has been equalized
C8_Witness ==
  \E r \in Requests :
    /\ eq[r] # NoImage
    /\ Len(pil[r].px) = BigPixels
    /\ Uniform(pil[r])
    /\ pil[r].px[1] = 100
    /\ eq[r].px[BigPixels] = 100

\* every pixel of res is the pixel of img, replaced by
\* clip8(original + (original - blurred) * 125 / 100), the quotient truncated
\* toward zero, exactly where |original - blurred| >= least
ThresholdRule(img, blurred, res, least) ==
  \A i \in 1..Len(img.px) :
    res.px[i] = IF Abs(img.px[i] - blurred.px[i]) >= least
                THEN clip8(img.px[i] + TruncDiv((img.px[i] - blurred.px[i]) * 125, 100))
                ELSE img.px[i]

\* C9 as stated: the unsharp step sharpens a pixel exactly when
\* |original - blurred| >= 3, so a pixel whose difference is exactly 3 is
\* sharpened.
C9_ThresholdInclusive ==
  \A r \in Requests :
    sharp[r] # NoImage =>
      Strict(LAMBDA blurred : ThresholdRule(eq[r], blurred, sharp[r], 3), GaussianBlur(eq[r]))

\* C9, amended: the unsharp step sharpens a pixel exactly when
\* |original - blurred| > 3, that is from a difference of 4 on, to
\* clip8(original + (original - blurred) * 125 / 100) with the quotient
\* truncated toward zero; a pixel whose difference is 3 or less, exactly 3
\* included, keeps its value.
C9_ThresholdStrict ==
  \A r \in Requests :
    sharp[r] # NoImage =>
      Strict(LAMBDA blurred : ThresholdRule(eq[r], blurred, sharp[r], 4), GaussianBlur(eq[r]))

\* some pixel differs from its blur by exactly d
DiffersBy(img, blurred, d) == \E i \in 1..Len(img.px) : Abs(img.px[i] - blurred.px[i]) = d

\* an image with a pixel at difference exactly 3 and a pixel at difference 4
\* has been through the unsharp step, and the step changed it
C9_Witness ==
  \E r \in Requests :
    /\ sharp[r] # NoImage
    /\ sharp[r] # eq[r]
    /\ Strict(LAMBDA blurred : DiffersBy(eq[r], blurred, 3) /\ DiffersBy(eq[r], blurred, 4),
              GaussianBlur(eq[r]))

SameSize(res, img) == res.w = img.w /\ res.h = img.h /\ Len(res.px) = img.w * img.h

\* C10: the output of simulate_arterial and of simulate_venous, and the
\* output of every sub-step of the arterial transform, has the width and the
\* height of the input image, 1x1 included.
C10_DimensionsPreserved ==
  \A r \in Requests :
    \A res \in {eq[r], sharp[r], bright[r], out[r]} :
      res # NoImage => pil[r].w > 0 /\ pil[r].h > 0 /\ SameSize(res, pil[r])

\* a 1x1 image has been through the whole arterial transform
C10_Witness ==
  \E r \in Requests :
    /\ pil[r].w = 1 /\ pil[r].h = 1
    /\ phase[r] = "arterial"
    /\ eq[r] # NoImage /\ sharp[r] # NoImage /\ bright[r] # NoImage /\ out[r] # NoImage

\* C4: the arterial sub-steps run in the order equalize, unsharp,
\* brightness, contrast, and each takes the output of the step before it:
\* eq is computed from the input image, sharp from eq, bright from sharp and
\* the result from bright.
C4_ArterialOrder ==
  \A r \in Requests :
    phase[r] = "arterial" =>
      /\ IsPrefix(StagesIn(r, TransformStages), ArterialStages)
      /\ eq[r] # NoImage => eq[r] = equalize(pil[r])
      /\ sharp[r] # NoImage => eq[r] # NoImage /\ sharp[r] = UnsharpMask(eq[r])
      /\ bright[r] # NoImage => sharp[r] # NoImage /\ bright[r] = Brightness(sharp[r])
      /\ out[r] # NoImage => bright[r] # NoImage /\ out[r] = Contrast(bright[r])

\* an arterial run is complete in which every sub-step changed its input
C4_Witness ==
  \E r \in Requests :
    /\ phase[r] = "arterial"
    /\ StagesIn(r, TransformStages) = ArterialStages
    /\ out[r] # NoImage
    /\ eq[r] # pil[r] /\ sharp[r] # eq[r] /\ bright[r] # sharp[r] /\ out[r] # bright[r]

\* C7: the image decoded by load_image from the bytes of to_png_bytes(I)
\* has the dimensions and the pixel values of I, and encoding it again gives
\* the same bytes.
C7_RoundTripLossless ==
  /\ rt.pc \in {"reencode", "done"} =>
       /\ rt.back.ok
       /\ rt.back.img.w = rt.img.w /\ rt.back.img.h = rt.img.h
       /\ rt.back.img.px = rt.img.px
  /\ rt.pc = "done" => rt.png2 = rt.png

\* the ramp image, whose first line is stored with filter 1, has made the
\* round trip
C7_Witness ==
  /\ rt.pc = "done"
  /\ rt.img.w = BigSide
  /\ rt.img.px[2] = 1
  /\ rt.png[22] = 1

(***************************************************************************)
(* Properties of the /process handler.                                     *)
(***************************************************************************)
SupportedTypes == {"image/jpeg", "image/png", "image/jpg"}

LastCall(r) == IF calls[r] = <<>> THEN "none" ELSE calls[r][Len(calls[r])]

\* the request has answered after load_image found no image in the upload
DecodeFailed(r) == pc[r] = "done" /\ LastCall(r) = "load_image" /\ ~load_image(file[r]).ok

\* the request has answered after to_png_bytes raised
EncodeFailed(r) == pc[r] = "done" /\ LastCall(r) = "to_png_bytes" /\ fault[r] = "to_png_bytes"

\* C1: for a request with an accepted content type, a decode failure in
\* load_image is answered with a 4xx status and an encode failure in
\* to_png_bytes with a 5xx status.
C1_ErrorClasses ==
  \A r \in Requests :
    content_type[r] \in SupportedTypes =>
      /\ DecodeFailed(r) => status[r] \in 400..499
      /\ EncodeFailed(r) => status[r] \in 500..599

\* C2: a request whose content type is not image/jpeg, image/png or
\* image/jpg enters no pipeline stage, its upload is never read and nothing
\* is decoded, transformed or encoded for it; once validated it has
\* answered 400.
C2_RejectsUnsupportedType ==
  \A r \in Requests :
    content_type[r] \notin SupportedTypes =>
      /\ calls[r] = <<>>
      /\ img_bytes[r] = <<>> /\ png[r] = <<>>
      /\ \A im \in {pil[r], eq[r], sharp[r], bright[r], out[r]} : im = NoImage
      /\ pc[r] \in {"absent", "validate", "done"}
      /\ pc[r] = "done" => status[r] = 400 /\ body[r] = Rejected

\* a valid PNG file sent as text/plain has been answered 400
C2_Witness ==
  \E r \in Requests :
    /\ content_type[r] = "text/plain"
    /\ file[r] = GrayPng
    /\ fault[r] = "none"
    /\ pc[r] = "done"
    /\ status[r] = 400

\* C3: a request answered 200 has had exactly one phase transform applied
\* to its decoded image, the one its phase names, and the phase field of
\* its response is the phase it asked for.
C3_AppliesRequestedPhase ==
  \A r \in Requests :
    status[r] = 200 =>
      /\ body[r].phase = phase[r]
      /\ phase[r] \in Phases
      /\ phase[r] = "arterial" =>
           /\ StagesIn(r, TransformStages) = ArterialStages
           /\ out[r] = simulate_arterial(pil[r])
      /\ phase[r] = "venous" =>
           /\ StagesIn(r, TransformStages) = <<"gaussian_blur">>
           /\ out[r] = simulate_venous(pil[r])

\* an arterial request for a valid upload has been answered 200 with an
\* image that is not the venous one
C3_Witness ==
  \E r \in Requests :
    /\ status[r] = 200
    /\ phase[r] = "arterial"
    /\ body[r].phase = "arterial"
    /\ out[r] # simulate_venous(pil[r])

\* the call of request r at position k of calls[r] failed
FailedAt(r, k) ==
  \/ fault[r] = calls[r][k]
  \/ calls[r][k] = "load_image" /\ ~load_image(file[r]).ok

\* C5: when a stage of a request fails, no later stage of that request
\* runs, no stage runs twice, and the request is answered with an error
\* whose body holds no image.
C5_FailurePropagates ==
  \A r \in Requests :
    /\ \A j, k \in 1..Len(calls[r]) : calls[r][j] = calls[r][k] => j = k
    /\ \A k \in 1..Len(calls[r]) :
         FailedAt(r, k) =>
           /\ k = Len(calls[r])
           /\ pc[r] = "done"
           /\ status[r] \in 400..599
           /\ DOMAIN body[r] = {"detail"}

\* an empty upload with an accepted content type has failed in load_image
\* and has been answered with an error
C5_Witness ==
  \E r \in Requests :
    /\ content_type[r] \in SupportedTypes
    /\ file[r] = EmptyFile
    /\ fault[r] = "none"
    /\ calls[r] = <<"read", "load_image">>
    /\ pc[r] = "done"
    /\ status[r] >= 400

\* the transform a request of phase ph applies to its decoded image
TransformOf(ph, img) == IF ph = "arterial" THEN simulate_arterial(img) ELSE simulate_venous(img)

\* the stages a request of phase ph with upload f enters when nothing is
\* made to fail: up to load_image when the upload holds no image
StagesReached(ph, f) ==
  IF load_image(f).ok THEN StageOrder(ph) ELSE <<"read", "load_image">>

\* the response of process_image to a request that runs alone, from its
\* content type ct, phase ph, upload f and the stage fl made to fail
Alone(ct, ph, f, fl) ==
  IF ct \notin SupportedTypes THEN [status |-> 400, body |-> Rejected]
  ELSE IF \/ ~load_image(f).ok
          \/ \E k \in 1..Len(StagesReached(ph, f)) : StagesReached(ph, f)[k] = fl
  THEN [status |-> 500, body |-> InternalError]
  ELSE [status |-> 200,
        body |-> [phase |-> ph, format |-> "png",
                  processed_image_base64 |->
                    b64encode(to_png_bytes(TransformOf(ph, load_image(f).img)))]]

=============================================================================
